---------------------------- MODULE Spec2Model ----------------------------
(***************************************************************************)
(* Model of src/python/main.py: the pending-transaction subscription loop  *)
(* `main` and the two trace fetchers `geth_style_tracing` and              *)
(* `parity_style_tracing`.                                                 *)
(*                                                                         *)
(* The loop is a single coroutine; `pc` is the await (or blocking call) it *)
(* is suspended at.  The remote node, the pending-transaction feed and the *)
(* HTTP endpoint are the environment: they choose when a message arrives,  *)
(* what it contains, and how each await resolves.                          *)
(***************************************************************************)
EXTENDS Naturals, Sequences, FiniteSets

\* ------------------------------------------------------------- bounds

\* Number of events the pending-transaction feed emits in one run.
MaxEvents == 3

\* Messages the websocket buffers for one connection before the feed is
\* held back (the transport's backpressure).
MaxInbox == 2

\* The counter of consecutive failures saturates here.
MaxFailures == 2

\* ------------------------------------------------ program constants

\* time.sleep(2)
SleepSeconds == 2

\* ------------------------------------------------------------- JSON

JNull == [t |-> "null"]

JStr(s) == [t |-> "str", s |-> s]

JDict(f) == [t |-> "dict", d |-> f]

EmptyDict == JDict([k \in {} |-> JNull])

\* A subscript d[k] of Python: a KeyError or a TypeError unless d is a
\* dict that holds k.
Subscript(v, k) ==
    IF v.t = "dict" /\ k \in DOMAIN v.d
    THEN [ok |-> TRUE, v |-> v.d[k]]
    ELSE [ok |-> FALSE, v |-> JNull]

\* dict.get(k): None when the key is absent.
DictGet(v, k) == IF k \in DOMAIN v.d THEN v.d[k] ELSE JNull

\* Python's truth value: None, the empty dict and the empty string are
\* false.
Truthy(v) ==
    CASE v.t = "null" -> FALSE
      [] v.t = "dict" -> DOMAIN v.d # {}
      [] v.t = "str"  -> v.s # ""

\* list(d.keys())
Keys(v) == DOMAIN v.d

\* A text on the wire: json.loads / request.json() raise unless it parses.
Text(v) == [json |-> TRUE, v |-> v]

Garbage == [json |-> FALSE, v |-> JNull]

\* ------------------------------------------------ the environment's data

TxIds == {"0xa", "0xb"}

Addrs == {"a1", "a2"}

\* {"params": {"result": <transaction id>}}
EventJson(tx) == JDict([params |-> JDict([result |-> JStr(tx)])])

\* What the feed can put on the wire for one event: a well-formed event, an
\* object without params.result, or a text that is no JSON.
EventTexts ==
    {Text(EventJson(tx)) : tx \in TxIds}
        \cup {Text(JDict([params |-> JDict([subscription |-> JStr("0x1")])])),
              Garbage}

WellFormed(text) == \E tx \in TxIds : text = Text(EventJson(tx))

\* What the node can answer to eth_subscribe: the subscription id, an error
\* object, or (a misbehaving node) a text shaped like an event.
AckText == Text(JDict([id |-> JStr("1"), result |-> JStr("0x1")]))

ReplyTexts ==
    {AckText,
     Text(JDict([id |-> JStr("1"), error |-> JDict([code |-> JStr("-32600")])])),
     Text(EventJson("0xa"))}

NoMsg == [seq |-> 0, text |-> Garbage]


\* What the HTTP endpoint can answer to debug_traceTransaction.
Account == JDict([balance |-> JStr("0x0")])

RpcError == JDict([code |-> JStr("-32000")])

GethResponses ==
    {Garbage,
     Text(JStr("busy")),
     Text(JDict([id |-> JStr("1")])),
     Text(JDict([id |-> JStr("1"), error |-> RpcError])),
     Text(JDict([result |-> JNull])),
     Text(JDict([result |-> EmptyDict])),
     Text(JDict([result |-> JStr("0x")]))}
        \cup {Text(JDict([result |-> JDict([a \in S |-> Account])])) :
                S \in (SUBSET Addrs) \ {{}}}

\* What it can answer to trace_replayTransaction.
ParityResponses ==
    {Garbage,
     Text(JDict([id |-> JStr("1")])),
     Text(JDict([id |-> JStr("1"), error |-> RpcError])),
     Text(JDict([result |-> JNull])),
     Text(JDict([result |-> EmptyDict])),
     Text(JDict([result |-> JDict([trace |-> JNull])])),
     Text(JDict([result |-> JDict([stateDiff |-> JNull])])),
     Text(JDict([result |-> JDict([stateDiff |-> EmptyDict, trace |-> JNull])]))}
        \cup {Text(JDict([result |->
                 JDict([stateDiff |-> JDict([a \in S |-> Account]),
                        trace |-> JNull])])) :
                S \in (SUBSET Addrs) \ {{}}}

NoOutput == [style |-> "none", addrs |-> {}]

\* ------------------------------------------------------------- state

VARIABLES
    pc,               \* where `main` is suspended
    openConns,        \* websocket connections open at the moment
    subscribed,       \* the node holds a subscription for the connection
    pendingSubs,      \* subscribe requests sent and not yet answered
    inbox,            \* messages delivered on the connection, not yet read
    subSent,          \* subscribe requests sent on this connection
    recvd,            \* messages read by ws.recv() on this connection
    res,              \* main's `res`: the first message of the connection
    msg,              \* main's `msg`: the message being processed
    tx_hash,          \* main's `tx_hash`
    inflight,         \* trace requests posted and not yet resolved
    sent,             \* params[0] of the latest request of each fetcher
    gethReqs,         \* debug_traceTransaction requests made per reception
    parityReqs,       \* trace_replayTransaction requests made per reception
    traceLog,         \* this connection's requests and completions, in order
    dispatchedBefore, \* receptions dispatched on an earlier connection
    nextSeq,          \* number of the next event of the feed
    emittedOk,        \* pending-transaction events the feed has emitted
    exc,              \* the failure the except clause is handling
    delay,            \* the argument of the latest time.sleep
    failures,         \* consecutive failures (saturating)
    lastRes,          \* a fetcher's `res`: the response it parsed last
    sink              \* the line a fetcher printed last

vars ==
    <<pc, openConns, subscribed, pendingSubs, inbox, subSent, recvd, res, msg,
      tx_hash, inflight, sent, gethReqs, parityReqs, traceLog,
      dispatchedBefore, nextSeq, emittedOk, exc, delay, failures, lastRes,
      sink>>

connVars == <<openConns, subscribed, pendingSubs, inbox>>

loopVars == <<subSent, recvd, res, msg, tx_hash>>

fetchVars ==
    <<inflight, sent, gethReqs, parityReqs, traceLog, dispatchedBefore, lastRes,
      sink>>

feedVars == <<nextSeq, emittedOk>>

handlerVars == <<exc, delay, failures>>

Seqs == 0 .. MaxEvents

Min(a, b) == IF a < b THEN a ELSE b

Init ==
    /\ pc = "start"
    /\ openConns = 0
    /\ subscribed = FALSE
    /\ pendingSubs = 0
    /\ inbox = <<>>
    /\ subSent = 0
    /\ recvd = 0
    /\ res = NoMsg
    /\ msg = NoMsg
    /\ tx_hash = JNull
    /\ inflight = {}
    /\ sent = [geth |-> JNull, parity |-> JNull]
    /\ gethReqs = [s \in Seqs |-> 0]
    /\ parityReqs = [s \in Seqs |-> 0]
    /\ traceLog = <<>>
    /\ dispatchedBefore = {}
    /\ nextSeq = 1
    /\ emittedOk = {}
    /\ exc = "none"
    /\ delay = 0
    /\ failures = 0
    /\ lastRes = Garbage
    /\ sink = NoOutput

\* ------------------------------------------------- the except clause

\* Variant: the clause names the connection errors only.
CaughtConnectionErrors(kind) == kind \in {"connect", "send", "recv"}

\* `except:` (line 82) names no exception class: it handles every failure.
Caught(kind) == TRUE

\* Variant: the delay grows with the number of consecutive failures.
GrowingDelay(n) == SleepSeconds * n

\* The delay before the retry after n consecutive failures: time.sleep(2).
ReconnectDelay(n) == SleepSeconds

\* The try statement is inside `while True`: the handler falls through to
\* the top of the loop.
AfterHandler == "start"

\* The except clause (lines 82-83) taking a failure of kind `kind`.
Handle(kind) ==
    /\ failures' = Min(failures + 1, MaxFailures)
    /\ exc' = kind
    /\ IF Caught(kind)
       THEN /\ pc' = "sleep"
            /\ delay' = ReconnectDelay(failures')
       ELSE /\ pc' = "terminated"
            /\ delay' = delay

\* Variant: the connection is opened without `async with` and never closed.
CloseConnectionLeak ==
    /\ openConns' = openConns
    /\ subscribed' = FALSE
    /\ pendingSubs' = 0
    /\ inbox' = <<>>

\* `async with websockets.connect(...) as ws` (line 61) closes the connection
\* when its body is left, however it is left.
CloseConnection ==
    /\ openConns' = openConns - 1
    /\ subscribed' = FALSE
    /\ pendingSubs' = 0
    /\ inbox' = <<>>

\* A failure raised inside the body of the `async with`: the connection is
\* closed on the way out, then the except clause takes it.
Raise(kind) == CloseConnection /\ Handle(kind)

\* time.sleep(2) returns, 'reconnecting...' is printed (lines 83-84).
Wake ==
    /\ pc = "sleep"
    /\ pc' = AfterHandler
    /\ exc' = "none"
    /\ UNCHANGED <<connVars, loopVars, fetchVars, feedVars, delay, failures>>

\* ------------------------------------------------- connect, subscribe

\* Top of `while True`: websockets.connect(ws_url) is awaited (line 61).
Connect ==
    /\ pc = "start"
    /\ pc' = "connecting"
    /\ UNCHANGED <<connVars, loopVars, fetchVars, feedVars, handlerVars>>

\* The connection is established; the subscription object is built and
\* ws.send is awaited (lines 61-69).
ConnectOk ==
    /\ pc = "connecting"
    /\ pc' = "send"
    /\ openConns' = openConns + 1
    /\ subSent' = 0
    /\ recvd' = 0
    /\ traceLog' = <<>>
    /\ dispatchedBefore' = {s \in 1 .. MaxEvents : gethReqs[s] > 0}
    /\ UNCHANGED <<subscribed, pendingSubs, inbox, res, msg, tx_hash, inflight,
                   sent, gethReqs, parityReqs, lastRes, sink, feedVars,
                   handlerVars>>

\* websockets.connect raises: no connection was opened.
ConnectFail ==
    /\ pc = "connecting"
    /\ Handle("connect")
    /\ UNCHANGED <<connVars, loopVars, fetchVars, feedVars>>

\* Variant: the receive loop is entered without reading the confirmation.
SendOkNoConfirm ==
    /\ pc = "send"
    /\ pc' = "recv_msg"
    /\ subSent' = subSent + 1
    /\ pendingSubs' = pendingSubs + 1
    /\ UNCHANGED <<openConns, subscribed, inbox, recvd, res, msg, tx_hash,
                   fetchVars, feedVars, handlerVars>>

\* ws.send returns: the subscribe request is on the wire; ws.recv() is
\* awaited with no timeout (lines 69-70).
SendOk ==
    /\ pc = "send"
    /\ pc' = "recv_sub"
    /\ subSent' = subSent + 1
    /\ pendingSubs' = pendingSubs + 1
    /\ UNCHANGED <<openConns, subscribed, inbox, recvd, res, msg, tx_hash,
                   fetchVars, feedVars, handlerVars>>

\* ws.send raises.
SendFail ==
    /\ pc = "send"
    /\ Raise("send")
    /\ UNCHANGED <<loopVars, fetchVars, feedVars>>

\* Variant: the confirmation is looked at but left in the buffer.
RecvSubPeek ==
    /\ pc = "recv_sub"
    /\ inbox # <<>>
    /\ res' = Head(inbox)
    /\ recvd' = recvd + 1
    /\ pc' = "recv_msg"
    /\ UNCHANGED <<connVars, subSent, msg, tx_hash, fetchVars, feedVars,
                   handlerVars>>

\* Variant: once resubscribed, the message processed last is queued again.
RecvSubReplay ==
    /\ pc = "recv_sub"
    /\ inbox # <<>>
    /\ res' = Head(inbox)
    /\ inbox' = IF msg = NoMsg THEN Tail(inbox) ELSE <<msg>> \o Tail(inbox)
    /\ recvd' = recvd + 1
    /\ pc' = "recv_msg"
    /\ UNCHANGED <<openConns, subscribed, pendingSubs, subSent, msg, tx_hash,
                   fetchVars, feedVars, handlerVars>>

\* The first ws.recv() returns a message: it is printed and the receive loop
\* is entered (lines 70-74).
RecvSub ==
    /\ pc = "recv_sub"
    /\ inbox # <<>>
    /\ res' = Head(inbox)
    /\ inbox' = Tail(inbox)
    /\ recvd' = recvd + 1
    /\ pc' = "recv_msg"
    /\ UNCHANGED <<openConns, subscribed, pendingSubs, subSent, msg, tx_hash,
                   fetchVars, feedVars, handlerVars>>

\* The first ws.recv() raises (the connection was closed).
RecvSubFail ==
    /\ pc = "recv_sub"
    /\ Raise("recv")
    /\ UNCHANGED <<loopVars, fetchVars, feedVars>>

\* ------------------------------------------------- the trace fetchers

\* Variant: no `if result:` before result.keys(), which raises on None.
GethExtractUnguarded(text) ==
    IF ~text.json \/ text.v.t # "dict"
    THEN [ok |-> FALSE, emit |-> FALSE, addrs |-> {}]
    ELSE LET result == DictGet(text.v, "result")
         IN  IF result.t # "dict"
             THEN [ok |-> FALSE, emit |-> FALSE, addrs |-> {}]
             ELSE [ok |-> TRUE, emit |-> TRUE, addrs |-> Keys(result)]

\* geth_style_tracing, lines 30-36: what the response yields.  `ok` is
\* FALSE when a line raises; `emit` says whether 'Geth style: ' is printed.
GethExtract(text) ==
    IF ~text.json \/ text.v.t # "dict"
    THEN [ok |-> FALSE, emit |-> FALSE, addrs |-> {}]
    ELSE LET result == DictGet(text.v, "result")
         IN  IF ~Truthy(result)
             THEN [ok |-> TRUE, emit |-> FALSE, addrs |-> {}]
             ELSE IF result.t # "dict"
                  THEN [ok |-> FALSE, emit |-> FALSE, addrs |-> {}]
                  ELSE [ok |-> TRUE, emit |-> TRUE, addrs |-> Keys(result)]

\* Variant: the keys of the result object are listed, not those of its
\* stateDiff.
ParityExtractResultKeys(text) ==
    IF ~text.json \/ text.v.t # "dict"
    THEN [ok |-> FALSE, emit |-> FALSE, addrs |-> {}]
    ELSE LET result == DictGet(text.v, "result")
         IN  IF ~Truthy(result)
             THEN [ok |-> TRUE, emit |-> FALSE, addrs |-> {}]
             ELSE LET state_diff == Subscript(result, "stateDiff")
                  IN  IF ~state_diff.ok \/ state_diff.v.t # "dict"
                      THEN [ok |-> FALSE, emit |-> FALSE, addrs |-> {}]
                      ELSE [ok |-> TRUE, emit |-> TRUE,
                            addrs |-> Keys(result)]

\* parity_style_tracing, lines 48-55.
ParityExtract(text) ==
    IF ~text.json \/ text.v.t # "dict"
    THEN [ok |-> FALSE, emit |-> FALSE, addrs |-> {}]
    ELSE LET result == DictGet(text.v, "result")
         IN  IF ~Truthy(result)
             THEN [ok |-> TRUE, emit |-> FALSE, addrs |-> {}]
             ELSE LET state_diff == Subscript(result, "stateDiff")
                  IN  IF ~state_diff.ok \/ state_diff.v.t # "dict"
                      THEN [ok |-> FALSE, emit |-> FALSE, addrs |-> {}]
                      ELSE [ok |-> TRUE, emit |-> TRUE,
                            addrs |-> Keys(state_diff.v)]

\* Variant: response['params'] is taken as the transaction identifier.
ParseEventParams(text) ==
    IF ~text.json
    THEN [ok |-> FALSE, v |-> JNull]
    ELSE Subscript(text.v, "params")

\* json.loads(msg) and response['params']['result'], lines 75-76.
ParseEvent(text) ==
    IF ~text.json
    THEN [ok |-> FALSE, v |-> JNull]
    ELSE LET params == Subscript(text.v, "params")
         IN  IF ~params.ok
             THEN [ok |-> FALSE, v |-> JNull]
             ELSE Subscript(params.v, "result")

\* ------------------------------------------------- the receive loop

\* wait_for(ws.recv(), 600) returns the buffered message number i, leaving
\* `rest` buffered; the message is parsed and, if it is an event,
\* geth_style_tracing posts its request (lines 74-78, 15-29).
Read(i, rest) ==
    /\ pc = "recv_msg"
    /\ inbox # <<>>
    /\ LET m == inbox[i]
           parsed == ParseEvent(m.text)
       IN  /\ msg' = m
           /\ recvd' = recvd + 1
           /\ IF parsed.ok
              THEN /\ tx_hash' = parsed.v
                   /\ pc' = "geth"
                   /\ inbox' = rest
                   /\ inflight' = inflight \cup {"geth"}
                   /\ sent' = [sent EXCEPT !.geth = parsed.v]
                   /\ gethReqs' = [gethReqs EXCEPT ![m.seq] = @ + 1]
                   /\ traceLog' = Append(traceLog, <<"geth", "req", m.seq>>)
                   /\ UNCHANGED <<openConns, subscribed, pendingSubs,
                                  handlerVars>>
              ELSE /\ Raise("malformed")
                   /\ UNCHANGED <<tx_hash, inflight, sent, gethReqs,
                                  traceLog>>
    /\ UNCHANGED <<subSent, res, parityReqs, dispatchedBefore, lastRes, sink,
                   feedVars>>

\* Variant: the message is read but stays buffered.
RecvMsgPeek == Read(1, inbox)

\* Variant: the newest buffered message is read first.
RecvMsgNewestFirst == Read(Len(inbox), SubSeq(inbox, 1, Len(inbox) - 1))

\* ws.recv() hands the messages over in the order they arrived.
RecvMsg == Read(1, Tail(inbox))

\* ws.recv() raises inside wait_for (the connection was closed).
RecvMsgFail ==
    /\ pc = "recv_msg"
    /\ Raise("recv")
    /\ UNCHANGED <<loopVars, fetchVars, feedVars>>

\* No message within the 600 seconds of wait_for: asyncio.TimeoutError.
IdleTimeout ==
    /\ pc = "recv_msg"
    /\ inbox = <<>>
    /\ Raise("timeout")
    /\ UNCHANGED <<loopVars, fetchVars, feedVars>>

\* The response to debug_traceTransaction arrives and is handled
\* (lines 29-36); geth_style_tracing returns or raises.
GethRespond ==
    /\ pc = "geth"
    /\ \E text \in GethResponses :
          LET r == GethExtract(text)
          IN  /\ lastRes' = text
              /\ inflight' = inflight \ {"geth"}
              /\ IF r.ok
                 THEN /\ pc' = "geth_done"
                      /\ sink' = IF r.emit
                                 THEN [style |-> "geth", addrs |-> r.addrs]
                                 ELSE sink
                      /\ traceLog' =
                            Append(traceLog, <<"geth", "done", msg.seq>>)
                      /\ UNCHANGED <<connVars, handlerVars>>
                 ELSE /\ Raise("fetch")
                      /\ UNCHANGED <<sink, traceLog>>
    /\ UNCHANGED <<loopVars, sent, gethReqs, parityReqs, dispatchedBefore,
                   feedVars>>

\* Variant: the failure reaches the loop while the request is left running.
GethFailStraggler ==
    /\ pc = "geth"
    /\ inflight' = inflight
    /\ Raise("fetch")
    /\ UNCHANGED <<loopVars, sent, gethReqs, parityReqs, traceLog,
                   dispatchedBefore, lastRes, sink, feedVars>>

\* session.post raises in geth_style_tracing (line 29).
GethFail ==
    /\ pc = "geth"
    /\ inflight' = inflight \ {"geth"}
    /\ Raise("fetch")
    /\ UNCHANGED <<loopVars, sent, gethReqs, parityReqs, traceLog,
                   dispatchedBefore, lastRes, sink, feedVars>>

\* geth_style_tracing has returned: parity_style_tracing is called and posts
\* its request (lines 79, 39-47).
ParityCall ==
    /\ pc = "geth_done"
    /\ pc' = "parity"
    /\ inflight' = inflight \cup {"parity"}
    /\ sent' = [sent EXCEPT !.parity = tx_hash]
    /\ parityReqs' = [parityReqs EXCEPT ![msg.seq] = @ + 1]
    /\ traceLog' = Append(traceLog, <<"parity", "req", msg.seq>>)
    /\ lastRes' = Garbage
    /\ sink' = NoOutput
    /\ UNCHANGED <<connVars, loopVars, gethReqs, dispatchedBefore, feedVars,
                   handlerVars>>

\* The response to trace_replayTransaction arrives and is handled
\* (lines 47-55).
ParityRespond ==
    /\ pc = "parity"
    /\ \E text \in ParityResponses :
          LET r == ParityExtract(text)
          IN  /\ lastRes' = text
              /\ inflight' = inflight \ {"parity"}
              /\ IF r.ok
                 THEN /\ pc' = "parity_done"
                      /\ sink' = IF r.emit
                                 THEN [style |-> "parity", addrs |-> r.addrs]
                                 ELSE sink
                      /\ traceLog' =
                            Append(traceLog, <<"parity", "done", msg.seq>>)
                      /\ UNCHANGED <<connVars, handlerVars>>
                 ELSE /\ Raise("fetch")
                      /\ UNCHANGED <<sink, traceLog>>
    /\ UNCHANGED <<loopVars, sent, gethReqs, parityReqs, dispatchedBefore,
                   feedVars>>

\* session.post raises in parity_style_tracing (line 47).
ParityFail ==
    /\ pc = "parity"
    /\ inflight' = inflight \ {"parity"}
    /\ Raise("fetch")
    /\ UNCHANGED <<loopVars, sent, gethReqs, parityReqs, traceLog,
                   dispatchedBefore, lastRes, sink, feedVars>>

\* print('\n') (line 81); the loop goes back to wait_for(ws.recv()).
Newline ==
    /\ pc = "parity_done"
    /\ pc' = "recv_msg"
    /\ failures' = 0
    /\ lastRes' = Garbage
    /\ sink' = NoOutput
    /\ UNCHANGED <<connVars, loopVars, inflight, sent, gethReqs, parityReqs,
                   traceLog, dispatchedBefore, feedVars, exc, delay>>

\* ------------------------------------------------- the environment

\* The node answers a subscribe request; unless it answers with an error the
\* subscription is now active.
NodeReply ==
    /\ pendingSubs > 0
    /\ Len(inbox) < MaxInbox
    /\ \E text \in ReplyTexts :
          /\ inbox' = Append(inbox, [seq |-> 0, text |-> text])
          /\ subscribed' = (subscribed \/ DictGet(text.v, "error") = JNull)
    /\ pendingSubs' = pendingSubs - 1
    /\ UNCHANGED <<pc, openConns, loopVars, fetchVars, feedVars, handlerVars>>

\* The feed emits a pending transaction while a subscription is active: the
\* node writes a message to the connection.
FeedDeliver ==
    /\ nextSeq <= MaxEvents
    /\ subscribed
    /\ Len(inbox) < MaxInbox
    /\ \E text \in EventTexts :
          /\ inbox' = Append(inbox, [seq |-> nextSeq, text |-> text])
          /\ emittedOk' =
                IF WellFormed(text) THEN emittedOk \cup {nextSeq} ELSE emittedOk
    /\ nextSeq' = nextSeq + 1
    /\ UNCHANGED <<pc, openConns, subscribed, pendingSubs, loopVars, fetchVars,
                   handlerVars>>

\* The feed emits a pending transaction while no subscription is active:
\* the node sends it to nobody.
FeedMiss ==
    /\ nextSeq <= MaxEvents
    /\ ~subscribed
    /\ emittedOk' = emittedOk \cup {nextSeq}
    /\ nextSeq' = nextSeq + 1
    /\ UNCHANGED <<pc, connVars, loopVars, fetchVars, handlerVars>>

\* ------------------------------------------------- specification

Next ==
    \/ Connect
    \/ ConnectOk
    \/ ConnectFail
    \/ SendOk
    \/ SendFail
    \/ RecvSub
    \/ RecvSubFail
    \/ RecvMsg
    \/ RecvMsgFail
    \/ IdleTimeout
    \/ GethRespond
    \/ GethFail
    \/ ParityCall
    \/ ParityRespond
    \/ ParityFail
    \/ Newline
    \/ Wake
    \/ NodeReply
    \/ FeedDeliver
    \/ FeedMiss

Spec == Init /\ [][Next]_vars

\* What the code's scheduling guarantees: time.sleep returns; connect, send,
\* the HTTP exchanges and wait_for(ws.recv(), 600) each resolve one way or
\* the other.  The first ws.recv() (line 70) returns once a message is
\* buffered but has no timeout, and the node and the feed owe nothing: no
\* fairness for them.
Fairness ==
    /\ WF_vars(Wake)
    /\ WF_vars(Connect)
    /\ WF_vars(ConnectOk \/ ConnectFail)
    /\ WF_vars(SendOk \/ SendFail)
    /\ WF_vars(RecvSub)
    /\ WF_vars(RecvMsg \/ RecvMsgFail \/ IdleTimeout)
    /\ WF_vars(GethRespond \/ GethFail)
    /\ WF_vars(ParityCall)
    /\ WF_vars(ParityRespond \/ ParityFail)
    /\ WF_vars(Newline)

FairSpec == Init /\ [][Next]_vars /\ Fairness

\* ------------------------------------------------- Connection State

\* The Connection State of the Subscription Loop, read off the position of
\* `main`.
ConnState ==
    CASE pc \in {"start", "sleep", "terminated"} -> "Disconnected"
      [] pc = "connecting" -> "Connecting"
      [] pc \in {"send", "recv_sub"} -> "Subscribed"
      [] OTHER -> "Receiving"

Tracing == pc \in {"geth", "geth_done", "parity", "parity_done"}

Waiting == pc \in {"recv_sub", "recv_msg"}

InInbox(s) == \E i \in 1 .. Len(inbox) : inbox[i].seq = s

IsGethRequest(e) == e[1] = "geth" /\ e[2] = "req"

Completed(style, s) ==
    \E i \in 1 .. Len(traceLog) : traceLog[i] = <<style, "done", s>>

\* ------------------------------------------------- claims

\* C1: the Connection State changes only along Disconnected -> Connecting ->
\* Subscribed -> Receiving or from any state to Disconnected; Receiving is
\* entered only after the subscribe request was sent and one message was
\* read on that connection, and Connecting is entered only from
\* Disconnected.
C1_DocumentedOrder ==
    [][/\ ConnState' # ConnState =>
            \/ ConnState' = "Disconnected"
            \/ <<ConnState, ConnState'>> \in
                  {<<"Disconnected", "Connecting">>,
                   <<"Connecting", "Subscribed">>,
                   <<"Subscribed", "Receiving">>}
       /\ (ConnState' = "Receiving" /\ ConnState # "Receiving") =>
            (subSent' = 1 /\ recvd' = 1 /\ openConns' = 1)
       /\ (ConnState' = "Connecting" /\ ConnState # "Connecting") =>
            ConnState = "Disconnected"]_vars

\* C1 witness: the loop is Receiving again after a failure.
C1_Witness == ConnState = "Receiving" /\ failures > 0 /\ recvd = 1

\* C2: every failure puts the loop in Disconnected with the fixed delay, and
\* from the delay the loop always gets to a new connection attempt, however
\* many failures came before.
C2_RetryForever ==
    /\ [][(exc = "none" /\ exc' # "none") =>
            (pc' = "sleep" /\ ConnState' = "Disconnected"
               /\ delay' = SleepSeconds)]_vars
    /\ (pc = "sleep") ~> (pc = "connecting")

\* C2 witness: a connection attempt after as many consecutive failures as
\* the counter holds.
C2_Witness == pc = "connecting" /\ failures = MaxFailures /\ delay = SleepSeconds

\* C3: no failure leaves the loop: it never terminates, and a failure of any
\* kind ends in the except clause.
C3_NeverTerminates ==
    /\ pc # "terminated"
    /\ exc # "none" => pc = "sleep"

\* C3 witness: a failure raised inside a trace fetch is being handled.
C3_Witness == pc = "sleep" /\ exc = "fetch" /\ gethReqs[msg.seq] = 1

\* C4: a wait for a message never lasts forever.
C4_EveryWaitBounded == [](Waiting => <>(~Waiting))

\* C5: while the Geth-style request of a transaction is in flight, the
\* Parity-style request for it has been issued too: it does not wait for
\* the Geth-style fetch to finish.
C5_FetchersConcurrent ==
    "geth" \in inflight => parityReqs[msg.seq] >= 1

\* C6: no event the feed emitted is lost: each is buffered on the connection
\* or has been dispatched.
C6_NoEventLost ==
    \A s \in emittedOk : InInbox(s) \/ gethReqs[s] >= 1

\* C7: nothing dispatched on an earlier connection is traced on this one,
\* and the loop has not terminated.
C7_NoReplay ==
    /\ pc # "terminated"
    /\ \A i \in 1 .. Len(traceLog) : traceLog[i][3] \notin dispatchedBefore
    /\ Tracing => msg.seq \notin dispatchedBefore

\* C7 witness: after a failure that followed dispatched events, the loop has
\* reconnected and traced a new event.
C7_Witness ==
    /\ dispatchedBefore # {}
    /\ pc = "parity_done"
    /\ msg.seq \notin dispatchedBefore

\* C8: a reception leads to at most one Geth-style and at most one
\* Parity-style request.
C8_TracedOncePerReception ==
    \A s \in Seqs : gethReqs[s] <= 1 /\ parityReqs[s] <= 1

\* C8 witness: two receptions were traced, one of them before a reconnect.
C8_Witness ==
    /\ dispatchedBefore # {}
    /\ \E s, t \in Seqs :
          /\ s # t
          /\ gethReqs[s] = 1 /\ parityReqs[s] = 1
          /\ gethReqs[t] = 1 /\ parityReqs[t] = 1

\* C9: on one connection the events are dispatched in the order they
\* arrived, and a receive is issued only when every event read before has
\* been through both fetchers.
C9_ArrivalOrder ==
    /\ LET reqs == SelectSeq(traceLog, IsGethRequest)
       IN  \A i, j \in 1 .. Len(reqs) : i < j => reqs[i][3] < reqs[j][3]
    /\ pc = "recv_msg" =>
          /\ inflight = {}
          /\ \A i \in 1 .. Len(traceLog) :
                /\ Completed("geth", traceLog[i][3])
                /\ Completed("parity", traceLog[i][3])

\* C9 witness: two events were traced on one connection and the next
\* receive is issued.
C9_Witness ==
    /\ pc = "recv_msg"
    /\ Len(SelectSeq(traceLog, IsGethRequest)) >= 2

\* C10: on a connection the subscribe request is sent once, before any
\* message is read; one message is read before the receive loop; that
\* message is never dispatched to the tracers.
C10_SubscribeOnce ==
    /\ subSent <= 1
    /\ recvd > 0 => subSent = 1
    /\ pc = "send" => subSent = 0
    /\ pc \in {"send", "recv_sub"} => recvd = 0
    /\ ConnState = "Receiving" => (subSent = 1 /\ recvd >= 1 /\ res.seq = 0)
    /\ (pc = "recv_msg" /\ traceLog = <<>>) => recvd = 1
    /\ gethReqs[0] = 0 /\ parityReqs[0] = 0
    /\ Tracing => msg.seq # 0

\* C10 witness: the first message of the connection had the shape of an
\* event and the loop is tracing a later one.
C10_Witness ==
    /\ pc = "geth"
    /\ ParseEvent(res.text).ok
    /\ subSent = 1

\* C11: a failure inside a trace fetch is local to it: every step taken
\* while an event is being traced leaves the loop Receiving on the same
\* connection, with no new subscribe request.
C11_FetchErrorLocal ==
    [][Tracing =>
          (ConnState' = "Receiving" /\ openConns' = openConns
             /\ subSent' = subSent)]_vars

\* C12: one tracer's failure does not suppress the other: once the loop has
\* left the tracing of a reception, both fetchers were invoked for it.
C12_OtherTracerStillRuns ==
    \A s \in Seqs :
        (gethReqs[s] >= 1 /\ ~(Tracing /\ msg.seq = s)) => parityReqs[s] >= 1

\* ------------------------------------------------- shapes of a response

\* The body parsed as a JSON object.
IsObject(text) == text.json /\ text.v.t = "dict"

\* The response carries a JSON-RPC error object.
HasError(text) == IsObject(text) /\ "error" \in DOMAIN text.v.d

\* The `result` field is absent or null, and there is no error object.
NullResult(text) ==
    IsObject(text) /\ ~HasError(text) /\ DictGet(text.v, "result") = JNull

\* The `result` field is a JSON object (possibly one with no keys).
ObjectResult(text) ==
    IsObject(text) /\ DictGet(text.v, "result").t = "dict"

\* The result object holds a `stateDiff` that is an object.
HasStateDiff(text) ==
    /\ ObjectResult(text)
    /\ "stateDiff" \in DOMAIN DictGet(text.v, "result").d
    /\ DictGet(text.v, "result").d["stateDiff"].t = "dict"

\* The result is non-null and holds no `stateDiff`.
LacksStateDiff(text) ==
    /\ IsObject(text)
    /\ DictGet(text.v, "result") # JNull
    /\ ObjectResult(text) =>
          "stateDiff" \notin DOMAIN DictGet(text.v, "result").d

\* The step in which a fetcher takes a response: `lastRes` becomes it.
Handled(at) == pc = at /\ lastRes' # lastRes

\* C13: a Parity-style response whose result is non-null and lacks stateDiff
\* makes the fetch fail.
C13_MissingStateDiffFails ==
    [][(Handled("parity") /\ LacksStateDiff(lastRes'))
          => (exc' = "fetch" /\ pc' # "parity_done")]_vars

\* C14: a response that carries an error object makes the fetch fail; the
\* fetcher does not return as it does for a response with no result.
C14_ErrorObjectSurfaced ==
    [][((Handled("geth") \/ Handled("parity")) /\ HasError(lastRes'))
          => (exc' = "fetch" /\ pc' \notin {"geth_done", "parity_done"})]_vars

\* C15: a response with no result and no error object is no failure: the
\* fetcher returns, nothing is printed, and the loop stays Receiving on the
\* same connection.
C15_NullResultIsNoError ==
    [][((Handled("geth") \/ Handled("parity")) /\ NullResult(lastRes'))
          => /\ pc' = (IF pc = "geth" THEN "geth_done" ELSE "parity_done")
             /\ sink' = sink
             /\ exc' = "none"
             /\ ConnState' = "Receiving"
             /\ openConns' = openConns]_vars

\* C15 witness: both fetchers of one event got a response with no result
\* and the event is through.
C15_Witness ==
    /\ pc = "parity_done"
    /\ NullResult(lastRes)
    /\ sink = NoOutput
    /\ Completed("geth", msg.seq)

\* C16: for a Geth-style response whose result is an object, the keys of
\* that object are what the fetcher prints.
C16_GethKeysEmitted ==
    [][(Handled("geth") /\ ObjectResult(lastRes'))
          => /\ pc' = "geth_done"
             /\ sink' = [style |-> "geth",
                         addrs |-> Keys(DictGet(lastRes'.v, "result"))]]_vars

\* C17: for a Parity-style response whose result holds a stateDiff object,
\* the keys of stateDiff are what the fetcher prints.
C17_ParityStateDiffKeysEmitted ==
    [][(Handled("parity") /\ HasStateDiff(lastRes'))
          => /\ pc' = "parity_done"
             /\ sink' =
                   [style |-> "parity",
                    addrs |->
                       Keys(DictGet(lastRes'.v, "result").d["stateDiff"])]]_vars

\* C17 witness: a stateDiff with one address, in a result with other keys,
\* was printed.
C17_Witness ==
    /\ pc = "parity_done"
    /\ HasStateDiff(lastRes)
    /\ sink = [style |-> "parity", addrs |-> {"a1"}]
    /\ Keys(DictGet(lastRes.v, "result")) # {"a1"}

\* The event's params.result, read off the message as it was received.
EventResult(m) == m.text.v.d["params"].d["result"]

\* C18: the identifier sent as first parameter of the Geth-style and of the
\* Parity-style request is the event's params.result, unchanged, and the
\* two requests of one reception carry the same one.
C18_TxIdVerbatim ==
    (Tracing /\ WellFormed(msg.text)) =>
        /\ tx_hash = EventResult(msg)
        /\ sent.geth = EventResult(msg)
        /\ pc \in {"parity", "parity_done"} =>
              (sent.parity = EventResult(msg) /\ sent.parity = sent.geth)

\* C18 witness: both requests went out for an event carrying "0xb", after
\* an event carrying "0xa".
C18_Witness ==
    /\ pc = "parity"
    /\ msg.text = Text(EventJson("0xb"))
    /\ sent = [geth |-> JStr("0xb"), parity |-> JStr("0xb")]
    /\ \E s \in Seqs : s # msg.seq /\ parityReqs[s] = 1

\* C19: at most one streaming connection is open, and none is open while
\* the loop is Disconnected (its delay included) or Connecting.
C19_OneConnection ==
    /\ openConns <= 1
    /\ ConnState \in {"Disconnected", "Connecting"} => openConns = 0
    /\ ConnState \in {"Subscribed", "Receiving"} => openConns = 1

\* C19 witness: a connection is open again after the failure counter has
\* filled up.
C19_Witness ==
    /\ openConns = 1
    /\ failures = MaxFailures
    /\ pc = "recv_msg"

\* C20: a trace request is outstanding only while the loop is Receiving and
\* awaiting that fetcher.
C20_NoStragglerFetch ==
    /\ inflight # {} => ConnState = "Receiving"
    /\ inflight =
          (CASE pc = "geth" -> {"geth"}
             [] pc = "parity" -> {"parity"}
             [] OTHER -> {})

\* C20 witness: a fetch is in flight on a connection opened after an earlier
\* one failed during a fetch.
C20_Witness ==
    /\ inflight = {"parity"}
    /\ dispatchedBefore # {}
    /\ failures > 0

=============================================================================
